---- MODULE Spec2Model ----
(***************************************************************************)
(* Model of fit2walking (src/rust/src/main.rs): the record loop of main    *)
(* that cuts a FIT record stream into track segments, lines_to_track,      *)
(* lines_to_points with point_distance and the *_avg helpers, and          *)
(* coord_extrema with the fallback ranges.                                 *)
(*                                                                         *)
(* f64 values are modelled as fixed-point numbers with Scale units per 1.0 *)
(* plus the IEEE specials NaN and +/-Inf.  Every arithmetic step rounds    *)
(* toward zero, which is sign-symmetric as IEEE rounding is.  Lengths are  *)
(* carried in megametres so that they fit TLC's 32-bit integers.           *)
(***************************************************************************)
EXTENDS Integers, Sequences, FiniteSets

(***************************************************************************)
(* Integer helpers                                                         *)
(***************************************************************************)
Abs(n) == IF n < 0 THEN -n ELSE n

Sgn(n) == IF n < 0 THEN -1 ELSE IF n = 0 THEN 0 ELSE 1

\* Rust's integer `/`: the quotient rounded toward zero.
TruncDiv(a, b) == Sgn(a) * Sgn(b) * (Abs(a) \div Abs(b))

(***************************************************************************)
(* f64 as fixed point                                                      *)
(***************************************************************************)
Scale == 10^4

None == [some |-> FALSE, v |-> 0]

Some(x) == [some |-> TRUE, v |-> x]

Fin(n) == [k |-> "fin", v |-> n]

NaN == [k |-> "nan", v |-> 0]

Inf(s) == [k |-> "inf", v |-> s]

\* An integer literal or `as f64` cast of an integer.
F64(n) == Fin(n * Scale)

\* |a| * |b| / Scale rounded down, without leaving 32 bits on the way.
MulS(a, b) ==
    LET a1 == Abs(a) \div Scale
        a0 == Abs(a) % Scale
        b1 == Abs(b) \div Scale
        b0 == Abs(b) % Scale
    IN  Sgn(a) * Sgn(b) * (a1 * Abs(b) + a0 * b1 + ((a0 * b0) \div Scale))

RECURSIVE FracDigits(_, _, _)
FracDigits(r, b, n) ==
    IF n = 0 THEN 0
    ELSE ((r * 10) \div b) * 10^(n - 1) + FracDigits((r * 10) % b, b, n - 1)

\* |a| * Scale / |b| rounded down, by long division (b # 0).
DivS(a, b) ==
    Sgn(a) * Sgn(b)
      * ((Abs(a) \div Abs(b)) * Scale + FracDigits(Abs(a) % Abs(b), Abs(b), 4))

FNeg(x) == IF x.k = "nan" THEN NaN ELSE [k |-> x.k, v |-> -x.v]

FAbs(x) == IF x.k = "nan" THEN NaN ELSE [k |-> x.k, v |-> Abs(x.v)]

FAdd(x, y) ==
    CASE x.k = "nan" \/ y.k = "nan" -> NaN
      [] x.k = "inf" /\ y.k = "inf" -> IF x.v = y.v THEN x ELSE NaN
      [] x.k = "inf" -> x
      [] y.k = "inf" -> y
      [] OTHER -> Fin(x.v + y.v)

FSub(x, y) == FAdd(x, FNeg(y))

FMul(x, y) ==
    CASE x.k = "nan" \/ y.k = "nan" -> NaN
      [] x.k = "inf" \/ y.k = "inf" ->
           IF x.v = 0 \/ y.v = 0 THEN NaN ELSE Inf(Sgn(x.v) * Sgn(y.v))
      [] OTHER -> Fin(MulS(x.v, y.v))

FDiv(x, y) ==
    CASE x.k = "nan" \/ y.k = "nan" -> NaN
      [] x.k = "inf" /\ y.k = "inf" -> NaN
      [] x.k = "inf" -> Inf(x.v * (IF y.v < 0 THEN -1 ELSE 1))
      [] y.k = "inf" -> Fin(0)
      [] y.v = 0 -> IF x.v = 0 THEN NaN ELSE Inf(Sgn(x.v))
      [] OTHER -> Fin(DivS(x.v, y.v))

\* `<` on f64: false whenever an operand is NaN.
FLt(x, y) ==
    CASE x.k = "nan" \/ y.k = "nan" -> FALSE
      [] x.k = "inf" /\ y.k = "inf" -> x.v < y.v
      [] x.k = "inf" -> x.v < 0
      [] y.k = "inf" -> y.v > 0
      [] OTHER -> x.v < y.v

\* f64::min and f64::max: a NaN operand is ignored.
f64_min(x, y) ==
    IF x.k = "nan" THEN y ELSE IF y.k = "nan" THEN x ELSE IF FLt(y, x) THEN y ELSE x

f64_max(x, y) ==
    IF x.k = "nan" THEN y ELSE IF y.k = "nan" THEN x ELSE IF FLt(x, y) THEN y ELSE x

powi2(x) == FMul(x, x)

RECURSIVE ISqrt(_, _, _)
ISqrt(n, lo, hi) ==
    IF hi - lo <= 1 THEN lo
    ELSE LET mid == (lo + hi) \div 2
         IN  IF mid * mid <= n THEN ISqrt(n, mid, hi) ELSE ISqrt(n, lo, mid)

sqrt(x) ==
    CASE x.k = "nan" -> NaN
      [] x.k = "inf" -> IF x.v > 0 THEN x ELSE NaN
      [] x.v < 0 -> NaN
      [] OTHER -> Fin(ISqrt(x.v * Scale, 0, 46341))

PI == 31416

RECURSIVE Series(_, _, _)
\* term + the following terms of the Taylor series of sin (n odd) or cos (n even).
Series(term, x2, n) ==
    IF term = 0 THEN 0
    ELSE term + Series(TruncDiv(-MulS(term, x2), (n + 1) * (n + 2)), x2, n + 2)

RECURSIVE SinS(_)
SinS(v) ==
    IF v < 0 THEN -SinS(-v)
    ELSE IF v > PI THEN SinS(v - 2 * PI)
    ELSE IF 2 * v > PI THEN SinS(PI - v)
    ELSE Series(v, MulS(v, v), 1)

RECURSIVE CosS(_)
CosS(v) ==
    IF v < 0 THEN CosS(-v)
    ELSE IF v > PI THEN CosS(v - 2 * PI)
    ELSE IF 2 * v > PI THEN -CosS(PI - v)
    ELSE Series(Scale, MulS(v, v), 0)

sin(x) == IF x.k = "fin" THEN Fin(SinS(x.v)) ELSE NaN

cos(x) == IF x.k = "fin" THEN Fin(CosS(x.v)) ELSE NaN

tan(x) == FDiv(sin(x), cos(x))

RECURSIVE Bisect(_, _, _, _)
\* The angle in [lo, hi] where y*cos(t) - x*sin(t) changes sign (y > 0).
Bisect(y, x, lo, hi) ==
    IF hi - lo <= 1 THEN lo
    ELSE LET mid == (lo + hi) \div 2
         IN  IF MulS(y, CosS(mid)) - MulS(x, SinS(mid)) >= 0
             THEN Bisect(y, x, mid, hi)
             ELSE Bisect(y, x, lo, mid)

atan2(y, x) ==
    CASE y.k = "nan" \/ x.k = "nan" -> NaN
      [] y.k = "inf" \/ x.k = "inf" ->
           IF y.k = "fin" THEN (IF x.v > 0 THEN Fin(0) ELSE Fin(Sgn(y.v + 1) * PI))
           ELSE IF x.k = "fin" THEN Fin(y.v * (PI \div 2))
           ELSE Fin(y.v * (IF x.v > 0 THEN PI \div 4 ELSE 3 * (PI \div 4)))
      [] y.v = 0 -> IF x.v >= 0 THEN Fin(0) ELSE Fin(PI)
      [] OTHER -> Fin(Sgn(y.v) * Bisect(Abs(y.v), x.v, 0, PI))

atan(x) ==
    CASE x.k = "nan" -> NaN
      [] x.k = "inf" -> Fin(x.v * (PI \div 2))
      [] OTHER -> atan2(x, F64(1))

\* sc * 180.0 / 2^31 in fixed point: sc * 28125 / 2^25, exact up to the last unit.
semicircles_to_degrees(sc) ==
    LET hi == Abs(sc) \div 2^15
        lo == Abs(sc) % 2^15
        x == hi * 28125
    IN  Fin(Sgn(sc) * ((x \div 2^10) + (((x % 2^10) * 2^15 + lo * 28125) \div 2^25)))

\* The semicircle values of the positions: 22.5, 45 and 67.5 degrees of latitude,
\* 11.25, 22.5 and 33.75 degrees of longitude.
GridLat == {2^28, 2^29, 2^28 + 2^29}

GridLon == {2^27, 2^28, 2^27 + 2^28}

(***************************************************************************)
(* Point and point_distance (Vincenty's inverse formula)                   *)
(***************************************************************************)
Point(latitude_deg, longitude_deg, elevation_m, unix_timestamp, heart_rate_bpm, speed_km_per_h, cadence_rpm, temperature_degc, timestamp) ==
    [latitude_deg |-> latitude_deg, longitude_deg |-> longitude_deg,
     elevation_m |-> elevation_m, unix_timestamp |-> unix_timestamp,
     heart_rate_bpm |-> heart_rate_bpm, speed_km_per_h |-> speed_km_per_h,
     cadence_rpm |-> cadence_rpm, temperature_degc |-> temperature_degc,
     timestamp |-> timestamp]

\* WGS-84 length of the semi-major axis, 6378137.0 m, in megametres.
wgs84_a == Fin(63781)

\* WGS-84 flattening, 1.0/298.257223563.
wgs84_f == FDiv(F64(1), Fin(2982572))

\* WGS-84 length of the semi-minor axis.
wgs84_b == FMul(FSub(F64(1), wgs84_f), wgs84_a)

epsilon == Fin(Scale \div 10)

MaxIterations == 16

\* The locals of point_distance are the fields of a record e; each `let` or
\* assignment below gives e one field from those it has.

\* lines 86-88
let_U1(e) == [e EXCEPT !.U1 = atan(FMul(FSub(F64(1), e.f), tan(e.lat1_rad)))]

let_U2(e) == [e EXCEPT !.U2 = atan(FMul(FSub(F64(1), e.f), tan(e.lat2_rad)))]

let_L(e) == [e EXCEPT !.L = FSub(e.lon2_rad, e.lon1_rad), !.lambda = FSub(e.lon2_rad, e.lon1_rad)]

\* sin and cos of U1, U2 and lambda, as lines 100-106 use them.
trig(e) ==
    [e EXCEPT !.sin_U1 = sin(e.U1), !.cos_U1 = cos(e.U1),
              !.sin_U2 = sin(e.U2), !.cos_U2 = cos(e.U2),
              !.sin_lambda = sin(e.lambda), !.cos_lambda = cos(e.lambda),
              !.prev_lambda = e.lambda]

\* lines 100-103
set_sin_sigma(e) ==
    [e EXCEPT !.sin_sigma = sqrt(FAdd(
        powi2(FMul(e.cos_U2, e.sin_lambda)),
        powi2(FSub(FMul(e.cos_U1, e.sin_U2),
                   FMul(FMul(e.sin_U1, e.cos_U2), e.cos_lambda)))))]

\* line 104
set_cos_sigma(e) ==
    [e EXCEPT !.cos_sigma = FAdd(FMul(e.sin_U1, e.sin_U2),
                                 FMul(FMul(e.cos_U1, e.cos_U2), e.cos_lambda))]

\* line 105
set_sigma(e) == [e EXCEPT !.sigma = atan2(e.sin_sigma, e.cos_sigma)]

\* line 106
let_sin_alpha(e) ==
    [e EXCEPT !.sin_alpha =
        FDiv(FMul(FMul(e.cos_U1, e.cos_U2), e.sin_lambda), e.sin_sigma)]

\* line 107
set_cos2_alpha(e) == [e EXCEPT !.cos2_alpha = FSub(F64(1), powi2(e.sin_alpha))]

\* line 108
set_cos_2sigmam(e) ==
    [e EXCEPT !.cos_2sigmam =
        FSub(e.cos_sigma,
             FDiv(FMul(FMul(F64(2), e.sin_U1), e.sin_U2), e.cos2_alpha))]

\* lines 109-113
let_C(e) ==
    [e EXCEPT !.C =
        FMul(FMul(FDiv(e.f, F64(16)), e.cos2_alpha),
             FAdd(F64(4), FMul(e.f, FSub(F64(4), FMul(F64(3), e.cos2_alpha)))))]

\* lines 114-120
set_lambda(e) ==
    [e EXCEPT !.lambda =
        FAdd(e.L, FMul(
            FMul(FMul(FSub(F64(1), e.C), e.f), e.sin_alpha),
            FAdd(e.sigma, FMul(
                FMul(e.C, e.sin_sigma),
                FAdd(e.cos_2sigmam, FMul(
                    FMul(e.C, e.cos_sigma),
                    FAdd(F64(-1), FMul(F64(2), powi2(e.cos_2sigmam)))))))))]

\* One pass of the body of `for _ in 0..16`: lines 99-120.
loop_body(e) ==
    set_lambda(let_C(set_cos_2sigmam(set_cos2_alpha(let_sin_alpha(
        set_sigma(set_cos_sigma(set_sin_sigma(trig(e)))))))))

\* line 121
converged(e) == FLt(FAbs(FSub(e.lambda, e.prev_lambda)), epsilon)

RECURSIVE for_loop(_, _)
\* lines 98-124: the loop with n passes made, left by `break` or after 16 passes.
for_loop(e, n) ==
    IF n = MaxIterations THEN e
    ELSE IF converged(loop_body(e)) THEN loop_body(e)
    ELSE for_loop(loop_body(e), n + 1)

\* line 126
let_u_2(e) ==
    [e EXCEPT !.u_2 =
        FDiv(FMul(e.cos2_alpha, FSub(powi2(e.a), powi2(e.b))), powi2(e.b))]

\* lines 127-133
let_A(e) ==
    [e EXCEPT !.A =
        FAdd(F64(1), FMul(FDiv(e.u_2, F64(16384)),
            FAdd(F64(4096), FMul(e.u_2,
                FAdd(F64(-768), FMul(e.u_2,
                    FSub(F64(320), FMul(F64(175), e.u_2))))))))]

\* lines 134-140
let_B(e) ==
    [e EXCEPT !.B =
        FMul(FDiv(e.u_2, F64(1024)),
            FAdd(F64(256), FMul(e.u_2,
                FAdd(F64(-128), FMul(e.u_2,
                    FSub(F64(74), FMul(F64(47), e.u_2)))))))]

\* lines 141-146
let_delta_sigma(e) ==
    [e EXCEPT !.delta_sigma =
        FMul(FMul(e.B, e.sin_sigma),
             FAdd(e.cos_2sigmam, FMul(
                 FMul(FDiv(F64(1), F64(4)), e.B),
                 FSub(FMul(e.cos_sigma,
                           FAdd(F64(-1), FMul(F64(2), powi2(e.cos_2sigmam)))),
                      FMul(FMul(FMul(FDiv(e.B, F64(6)), e.cos_2sigmam),
                                FAdd(F64(-3), FMul(F64(4), powi2(e.sin_sigma)))),
                           FAdd(F64(-3), FMul(F64(4), powi2(e.cos_2sigmam))))))))]

\* line 147
let_s(e) == FMul(FMul(e.b, e.A), FSub(e.sigma, e.delta_sigma))

\* degrees * PI / 180.0
to_rad(deg) == FDiv(FMul(deg, Fin(PI)), F64(180))

\* What the GeoPoint trait shows of a point.
GeoPoint(latitude_deg, longitude_deg) ==
    [latitude_deg |-> latitude_deg, longitude_deg |-> longitude_deg]

\* lines 76-84 and 90-95: the locals before the loop.
locals(point1, point2) ==
    [lat1_rad |-> to_rad(point1.latitude_deg), lat2_rad |-> to_rad(point2.latitude_deg),
     lon1_rad |-> to_rad(point1.longitude_deg), lon2_rad |-> to_rad(point2.longitude_deg),
     a |-> wgs84_a, f |-> wgs84_f, b |-> wgs84_b,
     sin_sigma |-> NaN, cos_sigma |-> NaN, sigma |-> NaN,
     cos2_alpha |-> NaN, cos_2sigmam |-> NaN,
     U1 |-> NaN, U2 |-> NaN, L |-> NaN, lambda |-> NaN, prev_lambda |-> NaN,
     sin_U1 |-> NaN, cos_U1 |-> NaN, sin_U2 |-> NaN, cos_U2 |-> NaN,
     sin_lambda |-> NaN, cos_lambda |-> NaN, sin_alpha |-> NaN, C |-> NaN,
     u_2 |-> NaN, A |-> NaN, B |-> NaN, delta_sigma |-> NaN]

point_distance(point1, point2) ==
    let_s(let_delta_sigma(let_B(let_A(let_u_2(
        for_loop(let_L(let_U2(let_U1(locals(point1, point2)))), 0))))))

(***************************************************************************)
(* serde_json values and the averages of lines_to_points                   *)
(***************************************************************************)
JsonNull == [j |-> "null", v |-> 0]

\* serde_json::Number of an f64 (v in fixed point) and of an integer.
JsonF64(v) == [j |-> "f64", v |-> v]

JsonInt(n) == [j |-> "int", v |-> n]

\* The text of a timestamp; "%Y-%m-%d %H:%M:%S" shows its whole seconds.
JsonString(secs) == [j |-> "string", v |-> secs]

\* What a panicking conversion stands for; the caller aborts on it.
Panicked == [j |-> "panic", v |-> 0]

\* serde_json::Number::from_f64: None unless the value is finite.
Number_from_f64(x) == IF x.k = "fin" THEN Some(JsonF64(x.v)) ELSE None

\* Value::from(f64) (`.into()`): Null unless the value is finite.
Value_from_f64(x) == IF x.k = "fin" THEN JsonF64(x.v) ELSE JsonNull

unwrap_json(o) == IF o.some THEN o.v ELSE Panicked

\* DateTime<Local> is modelled by its milliseconds since the epoch.
timestamp_secs(t) == t \div 1000

Local_timestamp(secs) == secs * 1000

\* The closures `average` that the four averages hand to avg, by the type T.
average(T, a, b) ==
    CASE T = "f64" -> FDiv(FAdd(a, b), F64(2))
      [] T = "i64" -> TruncDiv(a + b, 2)
      [] T = "u64" -> (a + b) \div 2
      [] T = "DateTime" ->
            Local_timestamp(TruncDiv(timestamp_secs(a) + timestamp_secs(b), 2))

\* The closures `jsonify` that the four averages hand to avg, by the type T.
jsonify(T, v) ==
    CASE T = "f64" -> unwrap_json(Number_from_f64(v))
      [] T = "i64" -> JsonInt(v)
      [] T = "u64" -> JsonInt(v)
      [] T = "DateTime" -> JsonString(timestamp_secs(v))

\* `avg.map(|v| jsonify(v))`
map_jsonify(T, a) == IF a.some THEN Some(jsonify(T, a.v)) ELSE None

avg(T, v1, v2) ==
    map_jsonify(T,
        CASE ~v1.some /\ ~v2.some -> None
          [] v1.some /\ ~v2.some -> Some(v1.v)
          [] ~v1.some /\ v2.some -> Some(v2.v)
          [] OTHER -> Some(average(T, v1.v, v2.v)))

f64_avg(f1, f2) == avg("f64", f1, f2)

\* i64_avg with a division that rounds down.
i64_avg_floor(i1, i2) ==
    CASE ~i1.some /\ ~i2.some -> None
      [] i1.some /\ ~i2.some -> Some(JsonInt(i1.v))
      [] ~i1.some /\ i2.some -> Some(JsonInt(i2.v))
      [] OTHER -> Some(JsonInt((i1.v + i2.v) \div 2))

i64_avg(i1, i2) == avg("i64", i1, i2)

u64_avg(i1, i2) == avg("u64", i1, i2)

time_avg(t1, t2) == avg("DateTime", t1, t2)

(***************************************************************************)
(* lines_to_track, lines_to_points, coord_extrema                          *)
(***************************************************************************)
as_lonlat_list(p) == <<p.longitude_deg, p.latitude_deg>>

lines_to_track(lines) ==
    [li \in 1..Len(lines) |->
        [properties |-> <<>>,
         coordinates |-> [i \in 1..Len(lines[li]) |->
                             <<lines[li][i].longitude_deg, lines[li][i].latitude_deg>>]]]

\* The feature pushed for the edge point1 -> point2: lines 231-263.
edge_feature(point1, point2, running_dist_m) ==
    [properties |->
        [running_distance |-> Value_from_f64(running_dist_m),
         speed |-> f64_avg(point1.speed_km_per_h, point2.speed_km_per_h),
         elevation |-> f64_avg(point1.elevation_m, point2.elevation_m),
         heart_rate |-> u64_avg(point1.heart_rate_bpm, point2.heart_rate_bpm),
         cadence |-> u64_avg(point1.cadence_rpm, point2.cadence_rpm),
         temperature |-> i64_avg(point1.temperature_degc, point2.temperature_degc),
         timestamp |-> time_avg(point1.timestamp, point2.timestamp)],
     coordinates |-> <<as_lonlat_list(point1), as_lonlat_list(point2)>>]

\* The coordinates that occur: the positions of the record streams and the grid
\* the distance is applied to on its own.
Coordinates ==
    {GeoPoint(semicircles_to_degrees(lat), semicircles_to_degrees(lon)) :
        lat \in GridLat, lon \in GridLon}

\* point_distance between the coordinates that occur, evaluated once.
distances ==
    {<<c1, c2, point_distance(c1, c2)>> : c1 \in Coordinates, c2 \in Coordinates}

\* line 228: `point_distance(point1, point2)` for two Points.
dist_between(point1, point2) ==
    (CHOOSE t \in distances :
        /\ t[1] = GeoPoint(point1.latitude_deg, point1.longitude_deg)
        /\ t[2] = GeoPoint(point2.latitude_deg, point2.longitude_deg))[3]

\* edge_count stopping one edge early.
edge_count_short(line) == Len(line) - 2

\* `0..line.len()-1`: the number of edges of a line (usize; an empty line underflows).
edge_count(line) == Len(line) - 1

RECURSIVE points_loop(_, _, _, _, _)

\* lines 231-263 and the next pass, with running_dist_m as line 229 has set it.
push_feature(lines, li, i, running_dist_m, features) ==
    points_loop(lines, li, i + 1, running_dist_m,
        Append(features, edge_feature(lines[li][i], lines[li][i + 1], running_dist_m)))

\* The two nested loops, at line li and index i, with the accumulator and the features.
points_loop(lines, li, i, running_dist_m, features) ==
    IF li > Len(lines) THEN features
    ELSE IF i > edge_count(lines[li])
         THEN points_loop(lines, li + 1, 1, running_dist_m, features)
    ELSE push_feature(lines, li, i,
             FAdd(running_dist_m, dist_between(lines[li][i], lines[li][i + 1])),
             features)

\* None when a jsonify has panicked (lines 170), else the features.
features_or_panic(features) ==
    IF \E e \in 1..Len(features) :
          \E k \in {"speed", "elevation", "heart_rate", "cadence", "temperature",
                    "timestamp"} :
              features[e].properties[k] = Some(Panicked)
    THEN None
    ELSE Some(features)

\* None when `line.len()-1` underflows or a jsonify panics, else the features.
lines_to_points(lines) ==
    IF \E li \in 1..Len(lines) : Len(lines[li]) = 0 THEN None
    ELSE features_or_panic(points_loop(lines, 1, 1, F64(0), <<>>))

RECURSIVE flat_map(_)
\* lines.iter().flat_map(|l| l.iter())
flat_map(lines) ==
    IF lines = <<>> THEN <<>> ELSE Head(lines) \o flat_map(Tail(lines))

\* `.map(|hr| hr as f64)` on an Option of an integer.
map_as_f64(o) == IF o.some THEN Some(F64(o.v)) ELSE None

\* The closures `coord` of lines 501-512, by the field of Point they read.
coord_of(coord, p) ==
    CASE coord = "latitude_deg" -> Some(p.latitude_deg)
      [] coord = "longitude_deg" -> Some(p.longitude_deg)
      [] coord = "elevation_m" -> p.elevation_m
      [] coord = "heart_rate_bpm" -> map_as_f64(p.heart_rate_bpm)
      [] coord = "speed_km_per_h" -> p.speed_km_per_h
      [] coord = "cadence_rpm" -> map_as_f64(p.cadence_rpm)
      [] coord = "temperature_degc" -> map_as_f64(p.temperature_degc)

\* The values of the points that have one.
unwrap_each(kept, coord) == [i \in 1..Len(kept) |-> coord_of(coord, kept[i]).v]

\* .filter_map(|p| coord(p))
filter_map(points, coord) ==
    unwrap_each(SelectSeq(points, LAMBDA p : coord_of(coord, p).some), coord)

RECURSIVE reduce_min(_)
reduce_min(vals) ==
    IF Len(vals) = 1 THEN vals[1]
    ELSE f64_min(reduce_min(SubSeq(vals, 1, Len(vals) - 1)), vals[Len(vals)])

\* reduce_max keeping the first value.
reduce_max_first(vals) == vals[1]

RECURSIVE reduce_max(_)
reduce_max(vals) ==
    IF Len(vals) = 1 THEN vals[1]
    ELSE f64_max(reduce_max(SubSeq(vals, 1, Len(vals) - 1)), vals[Len(vals)])

\* lines 300-304
min_and_max(vals) ==
    IF vals = <<>> THEN None ELSE Some(<<reduce_min(vals), reduce_max(vals)>>)

coord_extrema(lines, coord) == min_and_max(filter_map(flat_map(lines), coord))

unwrap_or(o, default) == IF o.some THEN o.v ELSE default

(***************************************************************************)
(* FIT records as fitparser hands them over                                *)
(***************************************************************************)
\* A fitparser::Value: its variant, its number (if any) and its text (if any).
Value(t, n, s) == [t |-> t, n |-> n, s |-> s]

SInt32(n) == Value("SInt32", n, "")

UInt8(n) == Value("UInt8", n, "")

UInt16(n) == Value("UInt16", n, "")

SInt8(n) == Value("SInt8", n, "")

\* Float64 of a fixed-point number.
Float64(n) == Value("Float64", n, "")

\* Timestamp of a DateTime given by its milliseconds since the epoch.
Timestamp(ms) == Value("Timestamp", ms, "")

String(s) == Value("String", 0, s)

Field(name, number, value) == [name |-> name, number |-> number, value |-> value]

Message(kind, fields) == [kind |-> kind, fields |-> fields]

\* .nth(0)
nth_0(hits) == IF hits = <<>> THEN None ELSE Some(hits[1])

\* .filter(|df| df.name() == name).nth(0)
field_named(record, name) == nth_0(SelectSeq(record.fields, LAMBDA df : df.name = name))

\* .filter(|f| f.number() == number).nth(0)
field_numbered(record, number) ==
    nth_0(SelectSeq(record.fields, LAMBDA f : f.number = number))

\* None stands for the panic on a value that is not SInt32.
semicircle_value_to_degrees(sc_val) ==
    IF sc_val.t = "SInt32" THEN Some(semicircles_to_degrees(sc_val.n)) ELSE None

\* `if let Some(field) = field_opt { if let Value::T(x) = field.value() { Some(x) } }`
value_of_type(field_opt, t) ==
    IF field_opt.some /\ field_opt.v.value.t = t THEN Some(field_opt.v.value.n) ELSE None

\* lines 403-413: the milliseconds of the timestamp, divided by 1000.0.
final_timestamp(ts) == IF ts.some THEN Some(FDiv(F64(ts.v), F64(1000))) ELSE None

\* lines 415-423
final_heart_rate(hr) == hr

\* lines 425-433
final_altitude(alt) == IF alt.some THEN Some(Fin(alt.v)) ELSE None

\* lines 435-444: metres per second times 3.6.
final_speed_km_per_h(speed_mpers) ==
    IF speed_mpers.some THEN Some(FMul(Fin(speed_mpers.v), Fin(36000))) ELSE None

\* lines 446-454
final_cadence(cad) == cad

\* lines 456-464
final_temperature(temp) == temp

\* lines 466-474
final_time(ts) == ts

\* The Point built from a position record that carries both coordinates.
decode_point(record, lat_deg, lon_deg) ==
    Point(lat_deg, lon_deg,
          final_altitude(value_of_type(field_named(record, "enhanced_altitude"), "Float64")),
          final_timestamp(value_of_type(field_named(record, "timestamp"), "Timestamp")),
          final_heart_rate(value_of_type(field_named(record, "heart_rate"), "UInt8")),
          final_speed_km_per_h(
              value_of_type(field_named(record, "enhanced_speed"), "Float64")),
          final_cadence(value_of_type(field_named(record, "cadence"), "UInt8")),
          final_temperature(value_of_type(field_named(record, "temperature"), "SInt8")),
          final_time(value_of_type(field_named(record, "timestamp"), "Timestamp")))

\* is_timer_stop_all with the two field numbers taken for each other.
is_timer_stop_all_swapped(record) ==
    LET event_category_opt == field_numbered(record, 1)
        event_type_opt == field_numbered(record, 0)
    IN  /\ event_category_opt.some
        /\ event_category_opt.v.value.t = "String"
        /\ event_category_opt.v.value.s = "timer"
        /\ event_type_opt.some
        /\ event_type_opt.v.value.t = "String"
        /\ event_type_opt.v.value.s = "stop_all"

\* lines 352-364: field 0 is the string "timer" and field 1 the string "stop_all".
is_timer_stop_all(record) ==
    LET event_category_opt == field_numbered(record, 0)
        event_type_opt == field_numbered(record, 1)
    IN  /\ event_category_opt.some
        /\ event_category_opt.v.value.t = "String"
        /\ event_category_opt.v.value.s = "timer"
        /\ event_type_opt.some
        /\ event_type_opt.v.value.t = "String"
        /\ event_type_opt.v.value.s = "stop_all"

\* timer_stopped without the test of the length.
timer_stopped_unguarded(ls, l) == [lines |-> Append(ls, l), line |-> <<>>]

\* lines 366-369: timer stopped; a discontinuity in the line.
timer_stopped(ls, l) ==
    [lines |-> IF Len(l) > 0 THEN Append(ls, l) ELSE ls, line |-> <<>>]

\* is_position_paused asking for both coordinates to be missing.
is_position_paused_both(lat_semicirc_opt, lon_semicirc_opt) ==
    ~lat_semicirc_opt.some /\ ~lon_semicirc_opt.some

\* line 387
is_position_paused(lat_semicirc_opt, lon_semicirc_opt) ==
    ~lat_semicirc_opt.some \/ ~lon_semicirc_opt.some

\* position_paused throwing the current line away.
position_paused_dropping(ls, l) == [lines |-> ls, line |-> <<>>]

\* lines 390-393: store the current line and try the next point.
position_paused(ls, l) ==
    IF Len(l) > 0 THEN [lines |-> Append(ls, l), line |-> <<>>]
    ELSE [lines |-> ls, line |-> l]

\* lines 397-401: unwrap() and the conversion both panic (None) on what they refuse.
position_degrees(semicirc_opt) ==
    IF semicirc_opt.some THEN semicircle_value_to_degrees(semicirc_opt.v.value)
    ELSE None

\* line 488
push_point(l, point) == Append(l, point)

\* lines 492-494: store final line.
store_final_line(ls, l) == IF Len(l) > 0 THEN Append(ls, l) ELSE ls

heart_rate_fallback == <<F64(80), F64(160)>>

speed_fallback == <<F64(0), F64(10)>>

cadence_fallback == <<F64(0), F64(120)>>

temperature_fallback == <<F64(-10), F64(45)>>

\* lines 501-525: None when an unwrap() or lines_to_points has panicked.
final_json_of(track, points, lat, lon, ele, hr, speed, cad, temp) ==
    IF ~points.some \/ ~lat.some \/ ~lon.some \/ ~ele.some THEN None
    ELSE Some([center |-> <<FDiv(FAdd(lat.v[1], lat.v[2]), F64(2)),
                            FDiv(FAdd(lon.v[1], lon.v[2]), F64(2))>>,
               zoom |-> 12,
               track |-> track,
               points |-> points.v,
               elevation_range |-> ele.v,
               heart_rate_range |-> unwrap_or(hr, heart_rate_fallback),
               speed_range |-> unwrap_or(speed, speed_fallback),
               cadence_range |-> unwrap_or(cad, cadence_fallback),
               temperature_range |-> unwrap_or(temp, temperature_fallback)])

\* lines 497-525
build_final_json(ls) ==
    final_json_of(
        lines_to_track(ls),
        lines_to_points(ls),
        coord_extrema(ls, "latitude_deg"),
        coord_extrema(ls, "longitude_deg"),
        coord_extrema(ls, "elevation_m"),
        coord_extrema(ls, "heart_rate_bpm"),
        coord_extrema(ls, "speed_km_per_h"),
        coord_extrema(ls, "cadence_rpm"),
        coord_extrema(ls, "temperature_degc"))

\* line 527: what println! prints, if the file got that far.
printed(doc) == IF doc.some THEN <<doc.v>> ELSE <<>>

(***************************************************************************)
(* The record streams the model reads                                      *)
(***************************************************************************)
\* 45 degrees north, 11.25 degrees east; heart rate, altitude, speed, temperature.
Fix1 ==
    Message("Record",
        <<Field("position_lat", 0, SInt32(2^29)),
          Field("position_long", 1, SInt32(2^27)),
          Field("timestamp", 253, Timestamp(1500)),
          Field("heart_rate", 3, UInt8(100)),
          Field("enhanced_altitude", 78, Float64(200 * Scale)),
          Field("enhanced_speed", 73, Float64(15000)),
          Field("temperature", 13, SInt8(-3))>>)

\* 45 degrees north, 22.5 degrees east; altitude and cadence (reported twice).
Fix2 ==
    Message("Record",
        <<Field("position_lat", 0, SInt32(2^29)),
          Field("position_long", 1, SInt32(2^28)),
          Field("timestamp", 253, Timestamp(4000)),
          Field("enhanced_altitude", 78, Float64(300 * Scale)),
          Field("cadence", 4, UInt8(60)),
          Field("cadence", 4, UInt8(90))>>)

\* The coordinates of Fix1 again; no altitude, no timestamp, a cadence of the wrong type.
Fix3 ==
    Message("Record",
        <<Field("position_lat", 0, SInt32(2^29)),
          Field("position_long", 1, SInt32(2^27)),
          Field("heart_rate", 3, UInt8(131)),
          Field("cadence", 4, UInt16(70)),
          Field("temperature", 13, SInt8(20))>>)

NoLat ==
    Message("Record",
        <<Field("position_long", 1, SInt32(2^27)),
          Field("heart_rate", 3, UInt8(90))>>)

NoLon ==
    Message("Record",
        <<Field("position_lat", 0, SInt32(2^29)),
          Field("timestamp", 253, Timestamp(2000))>>)

TimerStopAll ==
    Message("Event",
        <<Field("timestamp", 253, Timestamp(3000)),
          Field("event", 0, String("timer")),
          Field("event_type", 1, String("stop_all"))>>)

TimerStart ==
    Message("Event",
        <<Field("event", 0, String("timer")),
          Field("event_type", 1, String("start"))>>)

\* A message that is neither Event nor Record, though it carries a position.
Lap ==
    Message("Lap",
        <<Field("position_lat", 0, SInt32(2^28)),
          Field("position_long", 1, SInt32(2^28))>>)

Records == {Fix1, Fix2, Fix3, NoLat, NoLon, TimerStopAll, TimerStart, Lap}

\* The longest record stream of a file.
MaxRecords == 5

(***************************************************************************)
(* The loop of main over the records of one file                           *)
(***************************************************************************)
VARIABLES
    stream,      \* the records of the current file read so far
    lines,       \* `lines`: the closed segments
    line,        \* `line`: the open segment
    pc,          \* "reading", "done" (final_json printed) or "panicked"
    final_json,  \* <<>> or <<the document printed for the current file>>
    fn_in,       \* the arguments of a function applied on its own
    fn_out       \* its result

vars == <<stream, lines, line, pc, final_json, fn_in, fn_out>>

Init ==
    /\ stream = <<>>
    /\ lines = <<>>
    /\ line = <<>>
    /\ pc = "reading"
    /\ final_json = <<>>
    /\ fn_in = <<>>
    /\ fn_out = <<>>

CanRead == pc = "reading" /\ Len(stream) < MaxRecords

\* An Event message: lines 351-378.
ReadEvent ==
    \E record \in Records :
        /\ CanRead
        /\ record.kind = "Event"
        /\ stream' = Append(stream, record)
        /\ LET after == IF is_timer_stop_all(record)
                        THEN timer_stopped(lines, line)
                        ELSE [lines |-> lines, line |-> line]
           IN  lines' = after.lines /\ line' = after.line
        /\ UNCHANGED <<pc, final_json, fn_in, fn_out>>

\* A message that is neither Event nor Record: lines 376-378.
ReadOther ==
    \E record \in Records :
        /\ CanRead
        /\ record.kind # "Event"
        /\ record.kind # "Record"
        /\ stream' = Append(stream, record)
        /\ UNCHANGED <<lines, line, pc, final_json, fn_in, fn_out>>

\* A Record message: lines 380-488.
ReadRecord ==
    \E record \in Records :
        /\ CanRead
        /\ record.kind = "Record"
        /\ stream' = Append(stream, record)
        /\ LET lat_semicirc_opt == field_named(record, "position_lat")
               lon_semicirc_opt == field_named(record, "position_long")
               lat_deg == position_degrees(lat_semicirc_opt)
               lon_deg == position_degrees(lon_semicirc_opt)
           IN  IF is_position_paused(lat_semicirc_opt, lon_semicirc_opt)
               THEN LET after == position_paused(lines, line)
                    IN  lines' = after.lines /\ line' = after.line /\ pc' = pc
               ELSE IF ~lat_deg.some \/ ~lon_deg.some
               THEN pc' = "panicked" /\ UNCHANGED <<lines, line>>
               ELSE /\ line' = push_point(line, decode_point(record, lat_deg.v, lon_deg.v))
                    /\ UNCHANGED <<lines, pc>>
        /\ UNCHANGED <<final_json, fn_in, fn_out>>

\* The end of the stream: lines 491-527.
EndOfStream ==
    /\ pc = "reading"
    /\ lines' = store_final_line(lines, line)
    /\ final_json' = printed(build_final_json(lines'))
    /\ pc' = IF final_json' = <<>> THEN "panicked" ELSE "done"
    /\ UNCHANGED <<stream, line, fn_in, fn_out>>

\* The next FITFILE of the command line: lines 322, 337-341.
NextFile ==
    /\ pc = "done"
    /\ stream' = <<>>
    /\ lines' = <<>>
    /\ line' = <<>>
    /\ pc' = "reading"
    /\ final_json' = <<>>
    /\ UNCHANGED <<fn_in, fn_out>>

Next == ReadEvent \/ ReadOther \/ ReadRecord \/ EndOfStream \/ NextFile

Spec == Init /\ [][Next]_vars

(***************************************************************************)
(* The averages and the distance applied on their own                      *)
(***************************************************************************)
\* The largest magnitude of an argument of an average.
MaxAvgValue == 4

OptionalValues == {None} \cup {Some(n) : n \in -MaxAvgValue..MaxAvgValue}

InitAvg ==
    /\ stream = <<>>
    /\ lines = <<>>
    /\ line = <<>>
    /\ pc = "avg"
    /\ final_json = <<>>
    /\ fn_in \in OptionalValues \X OptionalValues
    /\ fn_out = <<>>

\* Option<f64> of a whole number.
as_f64_opt(o) == IF o.some THEN Some(F64(o.v)) ELSE None

\* Option<DateTime<Local>> of a number of half seconds.
as_time_opt(o) == IF o.some THEN Some(o.v * 500) ELSE None

ApplyF64Avg ==
    /\ pc = "avg"
    /\ fn_out' = <<"f64", f64_avg(as_f64_opt(fn_in[1]), as_f64_opt(fn_in[2]))>>
    /\ pc' = "averaged"
    /\ UNCHANGED <<stream, lines, line, final_json, fn_in>>

ApplyI64Avg ==
    /\ pc = "avg"
    /\ fn_out' = <<"i64", i64_avg(fn_in[1], fn_in[2])>>
    /\ pc' = "averaged"
    /\ UNCHANGED <<stream, lines, line, final_json, fn_in>>

\* u64 holds no negative number.
ApplyU64Avg ==
    /\ pc = "avg"
    /\ fn_in[1].v >= 0 /\ fn_in[2].v >= 0
    /\ fn_out' = <<"u64", u64_avg(fn_in[1], fn_in[2])>>
    /\ pc' = "averaged"
    /\ UNCHANGED <<stream, lines, line, final_json, fn_in>>

ApplyTimeAvg ==
    /\ pc = "avg"
    /\ fn_out' = <<"DateTime", time_avg(as_time_opt(fn_in[1]), as_time_opt(fn_in[2]))>>
    /\ pc' = "averaged"
    /\ UNCHANGED <<stream, lines, line, final_json, fn_in>>

NextAvg == ApplyF64Avg \/ ApplyI64Avg \/ ApplyU64Avg \/ ApplyTimeAvg

SpecAvg == InitAvg /\ [][NextAvg]_vars

InitDistance ==
    /\ stream = <<>>
    /\ lines = <<>>
    /\ line = <<>>
    /\ pc = "distance"
    /\ final_json = <<>>
    /\ fn_in \in Coordinates \X Coordinates
    /\ fn_out = <<>>

ApplyDistance ==
    /\ pc = "distance"
    /\ fn_out' = <<point_distance(fn_in[1], fn_in[2]), point_distance(fn_in[2], fn_in[1])>>
    /\ pc' = "measured"
    /\ UNCHANGED <<stream, lines, line, final_json, fn_in>>

NextDistance == ApplyDistance

SpecDistance == InitDistance /\ [][NextDistance]_vars

(***************************************************************************)
(* The properties                                                          *)
(***************************************************************************)
HasField(r, name) == \E i \in 1..Len(r.fields) : r.fields[i].name = name

\* A Record message with both coordinates.
IsFix(r) ==
    r.kind = "Record" /\ HasField(r, "position_lat") /\ HasField(r, "position_long")

\* A Record message that lacks a coordinate.
IsFixLost(r) ==
    r.kind = "Record" /\ ~(HasField(r, "position_lat") /\ HasField(r, "position_long"))

\* An Event message whose field 0 is "timer" and whose field 1 is "stop_all".
IsStopAll(r) ==
    /\ r.kind = "Event"
    /\ \E i \in 1..Len(r.fields) :
          r.fields[i].number = 0 /\ r.fields[i].value = String("timer")
    /\ \E i \in 1..Len(r.fields) :
          r.fields[i].number = 1 /\ r.fields[i].value = String("stop_all")

\* How many fixes the first i records of s hold.
FixRank(s, i) == Cardinality({j \in 1..i : IsFix(s[j])})

SemicircleOf(r, name) ==
    (CHOOSE f \in {r.fields[i] : i \in 1..Len(r.fields)} : f.name = name).value.n

\* The points of the fixes of s, in the order of s.
FixesOf(s) ==
    LET kept == SelectSeq(s, IsFix)
    IN  [i \in 1..Len(kept) |->
            decode_point(kept[i],
                         semicircles_to_degrees(SemicircleOf(kept[i], "position_lat")),
                         semicircles_to_degrees(SemicircleOf(kept[i], "position_long")))]

LonLatOf(points) ==
    [i \in 1..Len(points) |-> <<points[i].longitude_deg, points[i].latitude_deg>>]

RECURSIVE Concat(_)
Concat(seqs) == IF seqs = <<>> THEN <<>> ELSE Concat(SubSeq(seqs, 1, Len(seqs) - 1)) \o seqs[Len(seqs)]

\* The track and the edges of the printed document.
Track == final_json[1].track

Edges == final_json[1].points

TrackCoordinates == [li \in 1..Len(Track) |-> Track[li].coordinates]

\* The number of points of the first li segments of the track.
PointsUpTo(li) == Len(Concat(SubSeq(TrackCoordinates, 1, li)))

\* The segment of the track that holds the p-th point of the track; 0 if none does.
SegmentOf(p) ==
    LET hits == {li \in 1..Len(Track) : PointsUpTo(li - 1) < p /\ p <= PointsUpTo(li)}
    IN  IF hits = {} THEN 0 ELSE CHOOSE li \in hits : TRUE

\* A fix, then a timer stop_all, then a fix.
StopBetween(i, j, k) ==
    /\ i < j /\ j < k
    /\ IsFix(stream[i]) /\ IsStopAll(stream[j]) /\ IsFix(stream[k])

\* C1: when a timer stop_all event lies between two fixes P and Q of a file, the
\* printed track holds P and Q in two distinct segments, P's before Q's.
Claim1_StopSeparates ==
    pc = "done" =>
        \A i, j, k \in 1..Len(stream) :
            StopBetween(i, j, k) =>
                /\ SegmentOf(FixRank(stream, i)) # 0
                /\ SegmentOf(FixRank(stream, i)) < SegmentOf(FixRank(stream, k))

Claim1_Witness ==
    /\ pc = "done"
    /\ \E i, j, k \in 1..Len(stream) : StopBetween(i, j, k)

\* A step that reads a Record message lacking a coordinate closes the open line
\* if it holds a point, and changes neither line nor track otherwise.
FixLostStep ==
    (Len(stream') = Len(stream) + 1 /\ IsFixLost(stream'[Len(stream')])) =>
        /\ line' = <<>>
        /\ lines' = IF line # <<>> THEN Append(lines, line) ELSE lines
        /\ pc' = pc

\* C2: a Record message that lacks latitude or longitude never adds a point; a
\* non-empty open segment is appended to the track as it is and an empty one is
\* opened; with an empty open segment the track stays as it is.
Claim2_FixLost == [][FixLostStep]_vars

\* A fix, then two records without a position: the first closes a segment, the
\* second meets an empty one.
Claim2_Witness ==
    /\ Len(stream) >= 3
    /\ IsFix(stream[Len(stream) - 2])
    /\ IsFixLost(stream[Len(stream) - 1])
    /\ IsFixLost(stream[Len(stream)])
    /\ lines # <<>>
    /\ line = <<>>

\* C3: every segment of the track holds at least one point, so the bound of the
\* edge loop, line.len()-1, is never below zero.
Claim3_NoEmptySegment ==
    /\ \A li \in 1..Len(lines) : Len(lines[li]) >= 1 /\ edge_count(lines[li]) >= 0
    /\ pc = "done" => \A li \in 1..Len(Track) : Len(Track[li].coordinates) >= 1

\* A stream that starts with two stop events and ends with one.
Claim3_Witness ==
    /\ pc = "done"
    /\ Len(stream) >= 4
    /\ IsStopAll(stream[1])
    /\ IsStopAll(stream[2])
    /\ IsStopAll(stream[Len(stream)])
    /\ \E i \in 1..Len(stream) : IsFixLost(stream[i])

\* The pairs of neighbours of each segment, segment after segment.
NeighbourPairs(segments) ==
    Concat([li \in 1..Len(segments) |->
               [i \in 1..(Len(segments[li]) - 1) |->
                   <<segments[li][i], segments[li][i + 1]>>]])

RECURSIVE SumOfEdges(_)
SumOfEdges(segments) ==
    IF segments = <<>> THEN 0 ELSE (Len(Head(segments)) - 1) + SumOfEdges(Tail(segments))

\* C5: the edges are the pairs of neighbouring points of each segment of the
\* track, in order; their number is the sum of (length - 1) over the segments,
\* and no edge joins two segments.
Claim5_EdgesPerSegment ==
    pc = "done" =>
        /\ Len(Edges) = SumOfEdges(TrackCoordinates)
        /\ [e \in 1..Len(Edges) |-> Edges[e].coordinates] = NeighbourPairs(TrackCoordinates)

\* A, B, stop, C, D: two segments of two points and two edges.
Claim5_Witness ==
    /\ pc = "done"
    /\ Len(stream) = 5
    /\ IsStopAll(stream[3])
    /\ Len(Track) = 2
    /\ Len(Track[1].coordinates) = 2
    /\ Len(Track[2].coordinates) = 2
    /\ Len(Edges) = 2

\* C10: the segments, one after the other, are the fixes of the stream in its
\* order, each once; Event messages and other messages add no point.
Claim10_Conservation ==
    /\ pc = "reading" => Concat(lines) \o line = FixesOf(stream)
    /\ pc = "done" =>
          /\ Concat(lines) = FixesOf(stream)
          /\ Concat(TrackCoordinates) = LonLatOf(FixesOf(stream))

Claim10_Witness ==
    /\ pc = "done"
    /\ Len(Track) >= 2
    /\ \E i \in 1..Len(stream) : IsFixLost(stream[i])
    /\ \E i \in 1..Len(stream) : stream[i].kind = "Event"
    /\ \E i \in 1..Len(stream) : stream[i].kind \notin {"Event", "Record"}
    /\ Len(FixesOf(stream)) >= 2

\* C4: running_distance never decreases from one edge of a file to the next, the
\* edges of later segments included, and starts from zero with each file.
Claim4_RunningDistance ==
    pc = "done" =>
        \A e1, e2 \in 1..Len(Edges) :
            e1 < e2 =>
                /\ Edges[e1].properties.running_distance.j = "f64"
                /\ Edges[e2].properties.running_distance.j = "f64"
                /\ Edges[e1].properties.running_distance.v >= 0
                /\ Edges[e2].properties.running_distance.v
                      >= Edges[e1].properties.running_distance.v

\* The points of the segments.
SegmentPoints == UNION {{lines[li][i] : i \in 1..Len(lines[li])} : li \in 1..Len(lines)}

\* The values the points supply for an integer attribute and for an f64 attribute.
SuppliedInt(attr) == {p[attr].v * Scale : p \in {q \in SegmentPoints : q[attr].some}}

SuppliedF64(attr) == {p[attr].v.v : p \in {q \in SegmentPoints : q[attr].some}}

Least(S) == CHOOSE x \in S : \A y \in S : x <= y

Greatest(S) == CHOOSE x \in S : \A y \in S : x >= y

ExpectedRange(supplied, lo, hi) ==
    IF supplied = {} THEN <<Fin(lo * Scale), Fin(hi * Scale)>>
    ELSE <<Fin(Least(supplied)), Fin(Greatest(supplied))>>

\* C8: an attribute no point supplies gets its fallback range (heart rate 80..160,
\* speed 0..10, cadence 0..120, temperature -10..45); an attribute some point
\* supplies gets the least and the greatest supplied value of all segments.
Claim8_Ranges ==
    pc = "done" =>
        /\ final_json[1].heart_rate_range
              = ExpectedRange(SuppliedInt("heart_rate_bpm"), 80, 160)
        /\ final_json[1].speed_range = ExpectedRange(SuppliedF64("speed_km_per_h"), 0, 10)
        /\ final_json[1].cadence_range = ExpectedRange(SuppliedInt("cadence_rpm"), 0, 120)
        /\ final_json[1].temperature_range
              = ExpectedRange(SuppliedInt("temperature_degc"), -10, 45)
        /\ \A k \in {"heart_rate_range", "speed_range", "cadence_range",
                     "temperature_range"} :
              final_json[1][k][1].v <= final_json[1][k][2].v

\* Two heart rates in two segments, and no cadence at all.
Claim8_Witness ==
    /\ pc = "done"
    /\ Len(lines) >= 2
    /\ Cardinality(SuppliedInt("heart_rate_bpm")) >= 2
    /\ SuppliedInt("cadence_rpm") = {}
    /\ final_json[1].cadence_range = <<Fin(0), Fin(120 * Scale)>>

\* A vertex of a censor polygon, in whole degrees.
Vertex(lat, lon) == [lat |-> Fin(lat * Scale), lon |-> Fin(lon * Scale)]

\* The censor polygons of the specification's sections 4.2 and 4.3: a box around
\* the position of Fix2 and a triangle that holds no position of the streams.
censor_polygons ==
    <<
      <<Vertex(40, 20), Vertex(40, 25), Vertex(50, 25), Vertex(50, 20)>>,
      <<Vertex(0, 0), Vertex(0, 5), Vertex(5, 0)>>
    >>

\* Whether the ray from the point toward greater longitude crosses the edge v1-v2.
crosses(v1, v2, point) ==
    /\ FLt(point.latitude_deg, v1.lat) # FLt(point.latitude_deg, v2.lat)
    /\ FLt(point.longitude_deg,
           FAdd(v1.lon,
                FDiv(FMul(FSub(v2.lon, v1.lon), FSub(point.latitude_deg, v1.lat)),
                     FSub(v2.lat, v1.lat))))

\* Even-odd rule over the (longitude, latitude) plane; the ring is closed.
contains(polygon, point) ==
    Cardinality({i \in 1..Len(polygon) :
        crosses(polygon[i], polygon[(i % Len(polygon)) + 1], point)}) % 2 = 1

\* Inside any configured polygon.
is_censored(point) ==
    \E c \in 1..Len(censor_polygons) : contains(censor_polygons[c], point)

\* A fix inside a censor polygon.
Censored(r) ==
    /\ IsFix(r)
    /\ is_censored(GeoPoint(semicircles_to_degrees(SemicircleOf(r, "position_lat")),
                            semicircles_to_degrees(SemicircleOf(r, "position_long"))))

KeptFix(r) == IsFix(r) /\ ~Censored(r)

KeptRank(s, i) == Cardinality({j \in 1..i : KeptFix(s[j])})

\* Two kept fixes with censored fixes, and nothing else, between them.
CensoredBetween(i, k) ==
    /\ i + 1 < k
    /\ KeptFix(stream[i]) /\ KeptFix(stream[k])
    /\ \A j \in (i + 1)..(k - 1) : Censored(stream[j])

\* C6: a fix inside a censor polygon is in no segment and in no edge, it does not
\* close the open segment, and the fixes before and after it are neighbours in
\* one segment.
Claim6_Censored ==
    pc = "done" =>
        /\ Concat(TrackCoordinates) = LonLatOf(FixesOf(SelectSeq(stream, KeptFix)))
        /\ \A e \in 1..Len(Edges) : \A c \in 1..2 :
              ~is_censored(GeoPoint(Edges[e].coordinates[c][2], Edges[e].coordinates[c][1]))
        /\ \A i, k \in 1..Len(stream) :
              CensoredBetween(i, k) =>
                  /\ SegmentOf(KeptRank(stream, i)) # 0
                  /\ SegmentOf(KeptRank(stream, i)) = SegmentOf(KeptRank(stream, k))
                  /\ KeptRank(stream, k) = KeptRank(stream, i) + 1

\* The JSON of one argument, by the kind of the average.
AvgJson(kind, n) ==
    CASE kind = "f64" -> JsonF64(n * Scale)
      [] kind \in {"i64", "u64"} -> JsonInt(n)
      [] kind = "DateTime" -> JsonString(n \div 2)

\* r is half of sum, rounded toward zero.
TruncatedHalf(r, sum) ==
    IF sum % 2 = 0 THEN 2 * r = sum
    ELSE IF sum > 0 THEN 2 * r = sum - 1
    ELSE 2 * r = sum + 1

MeanOf(kind, r, a, b) ==
    CASE kind = "f64" -> r.j = "f64" /\ 2 * r.v = (a + b) * Scale
      [] kind \in {"i64", "u64"} -> r.j = "int" /\ TruncatedHalf(r.v, a + b)
      [] kind = "DateTime" -> r.j = "string" /\ TruncatedHalf(r.v, (a \div 2) + (b \div 2))

\* C7: an average of two absent values is absent; of one present value it is that
\* value; of two present values it is their mean (a+b)/2, which for integers is
\* rounded toward zero, for negative sums as well.
Claim7_Avg ==
    pc = "averaged" =>
        /\ (~fn_in[1].some /\ ~fn_in[2].some) => fn_out[2] = None
        /\ (fn_in[1].some /\ ~fn_in[2].some) =>
              fn_out[2] = Some(AvgJson(fn_out[1], fn_in[1].v))
        /\ (~fn_in[1].some /\ fn_in[2].some) =>
              fn_out[2] = Some(AvgJson(fn_out[1], fn_in[2].v))
        /\ (fn_in[1].some /\ fn_in[2].some) =>
              /\ fn_out[2].some
              /\ MeanOf(fn_out[1], fn_out[2].v, fn_in[1].v, fn_in[2].v)

\* -3 and 2: a sum of mixed signs that is odd and negative.
Claim7_Witness ==
    /\ pc = "averaged"
    /\ fn_in = <<Some(-3), Some(2)>>
    /\ fn_out = <<"i64", Some(JsonInt(0))>>

\* C9: the distance from a point to itself is 0, and the distance from a to b is
\* the distance from b to a.
Claim9_Distance ==
    pc = "measured" =>
        /\ fn_in[1] = fn_in[2] => fn_out[1] = F64(0)
        /\ fn_out[1] = fn_out[2]

====
